---- MODULE Spec2Model ----
(***************************************************************************)
(* Model of the raft bitset as exercised and pinned down by its test and   *)
(* host oracle (the bitset test, src/unnamed/part_001 from line 69 on).    *)
(* The host oracle functions are translated from that file; the device     *)
(* operations whose code is elsewhere (set with a value, reset, count,     *)
(* any, none, sparsity, eval_n_elements, repeat) follow their contract.    *)
(*                                                                         *)
(* A word of type bitset_t is a sequence of nbits bits, bit o of the word  *)
(* at position o + 1, so that words of 64 bits stay exact.  The backing    *)
(* memory of a bitset is the sequence of its words; on the little-endian   *)
(* targets of the library the byte at offset b of a word holds its bits    *)
(* 8b .. 8b+7.                                                             *)
(*                                                                         *)
(* The last part models random::permute (permute.cuh): the search for a    *)
(* multiplier coprime to N and the kernel that writes the index map.       *)
(***************************************************************************)
EXTENDS Integers, Sequences, FiniteSets, TLC

VARIABLES
  nbits,        \* sizeof(bitset_t) * 8 of the instantiated fixture
  bitset_len,   \* spec.bitset_len, the logical bit count N
  bitset,       \* my_bitset.data(): the device words
  op,           \* the last call of run() that acted on my_bitset
  mask,         \* the index list handed to that call, where it is recorded
  value,        \* the value argument handed to that call
  prev,         \* the device words before that call, where they are recorded
  out,          \* what that call returned or wrote to its destination
  threads,      \* the device threads of a running set() kernel, one per index
  perm          \* the state of a call of random::permute: N, a, b, perms and its position

vars == <<nbits, bitset_len, bitset, op, mask, value, prev, out, threads, perm>>

(***************************************************************************)
(* Bounds of the exploration.                                              *)
(***************************************************************************)
MaxLen == 9        \* every bitset_len in 1..MaxLen is explored with every index
MaxMaskLen == 2    \* longest index list handed to the constructor
MaxSetLen == 1     \* longest index list handed to set() in the free-running Spec
MaxTimes == 3      \* every repeat_times in 1..MaxTimes is explored

\* The word types the test instantiates.
Widths == {8, 16, 32, 64}

\* Lengths of the free-running Spec: the small ones and the length of the
\* scenario with mask {0, 3, 7, 31}.
Lens == (1 .. MaxLen) \cup {32}

Range(s) == {s[i] : i \in DOMAIN s}

SeqsUpTo(S, n) == UNION {[1 .. k -> S] : k \in 0 .. n}

\* linalg::range: the indices 0, 1, ..., k-1
range(k) == [i \in 1 .. k |-> i - 1]

\* Indices drawn by uniformInt(0, bitset_len): every index of a small bitset;
\* of a long one the indices next to the byte and word boundaries.
Indices(N) ==
  IF N <= MaxLen THEN 0 .. N - 1
  ELSE {0, 3, 7, 8, 15, 16, 31, 32, 63, 64, N - 1} \cap (0 .. N - 1)

\* Index lists handed to the constructor.
Masks(N) ==
  SeqsUpTo(Indices(N), MaxMaskLen) \cup (IF N = 32 THEN {<<0, 3, 7, 31>>} ELSE {})

\* Index lists handed to set() in the free-running Spec.
SetMasks(N) == SeqsUpTo(Indices(N), MaxSetLen)

\* Index lists produced by linalg::range: every prefix of a small bitset, the
\* whole of a long one.
RangeMasks(N) == {range(k) : k \in {j \in 0 .. N : N <= MaxLen \/ j = N}}

(***************************************************************************)
(* Word arithmetic.                                                        *)
(***************************************************************************)
\* ~bitset_t(0x00)
AllOnes(W) == [o \in 1 .. W |-> 1]

\* bitset_t(0)
AllZeros(W) == [o \in 1 .. W |-> 0]

\* w & ~(bitset_t{1} << o)
AndNotBit(w, o) == [w EXCEPT ![o + 1] = 0]

\* w | (bitset_t{1} << o)
OrBit(w, o) == [w EXCEPT ![o + 1] = 1]

\* (w & (bitset_t{1} << o)) != 0, and (w >> o) & 1
BitOf(w, o) == w[o + 1]

\* ~w
Not(w) == [o \in DOMAIN w |-> 1 - w[o]]

\* (a + b - 1) / b
ceildiv(a, b) == (a + b - 1) \div b

(***************************************************************************)
(* The host oracle.                                                        *)
(***************************************************************************)
\* Defect: the bit offset is taken modulo 8 instead of the element size.
RECURSIVE add_loop_byte_offset(_, _, _, _)
add_loop_byte_offset(bs, mask_idx, W, i) ==
  IF i > Len(mask_idx) THEN bs
  ELSE LET idx == mask_idx[i]
           u == idx \div W + 1
       IN add_loop_byte_offset([bs EXCEPT ![u] = AndNotBit(bs[u], idx % 8)],
                               mask_idx, W, i + 1)

add_cpu_bitset_byte_offset(bs, mask_idx, W) == add_loop_byte_offset(bs, mask_idx, W, 1)

\* Defect: the bit is or-ed in instead of masked out.
RECURSIVE add_loop_or(_, _, _, _)
add_loop_or(bs, mask_idx, W, i) ==
  IF i > Len(mask_idx) THEN bs
  ELSE LET idx == mask_idx[i]
           u == idx \div W + 1
       IN add_loop_or([bs EXCEPT ![u] = OrBit(bs[u], idx % W)], mask_idx, W, i + 1)

add_cpu_bitset_or(bs, mask_idx, W) == add_loop_or(bs, mask_idx, W, 1)

RECURSIVE add_loop(_, _, _, _)
add_loop(bs, mask_idx, W, i) ==
  IF Len(bs) = 0 \/ i > Len(mask_idx) THEN bs
  ELSE LET idx == mask_idx[i]
           u == idx \div W + 1
       IN add_loop([bs EXCEPT ![u] = AndNotBit(bs[u], idx % W)], mask_idx, W, i + 1)

add_cpu_bitset(bs, mask_idx, W) == add_loop(bs, mask_idx, W, 1)

\* Defect: only the first index of the mask is applied.
create_cpu_bitset_first_only(size, mask_idx, W) ==
  add_cpu_bitset([i \in 1 .. size |-> AllOnes(W)],
                 IF mask_idx = << >> THEN << >> ELSE <<mask_idx[1]>>, W)

create_cpu_bitset(size, mask_idx, W) ==
  add_cpu_bitset([i \in 1 .. size |-> AllOnes(W)], mask_idx, W)

\* Defect: the bit offset is taken modulo 8 instead of the element size.
test_cpu_bitset_byte_offset(bs, query, W) == BitOf(bs[query \div W + 1], query % 8) # 0

test_cpu_bitset(bs, query, W) == BitOf(bs[query \div W + 1], query % W) # 0

\* Defect: only the bits below bitset_len are complemented, the padding of the
\* trailing word is left as it is.
flip_cpu_bitset_logical(bs) ==
  [u \in DOMAIN bs |->
     [o \in 1 .. nbits |->
        IF (u - 1) * nbits + (o - 1) < bitset_len THEN 1 - bs[u][o] ELSE bs[u][o]]]

\* Defect: the loop stops one word early.
flip_cpu_bitset_short(bs) ==
  [i \in DOMAIN bs |-> IF i < Len(bs) THEN Not(bs[i]) ELSE bs[i]]

flip_cpu_bitset(bs) == [i \in DOMAIN bs |-> Not(bs[i])]

\* The loop of sparsity_cpu_bitset over the bits lo .. hi-1: the number of them
\* that are 1 (the sum is split in halves to keep the evaluation shallow)
RECURSIVE ones_between(_, _, _, _)
ones_between(data, W, lo, hi) ==
  IF hi <= lo THEN 0
  ELSE IF hi = lo + 1 THEN BitOf(data[lo \div W + 1], lo % W)
  ELSE LET mid == (lo + hi) \div 2
       IN ones_between(data, W, lo, mid) + ones_between(data, W, mid, hi)

\* Defect: the loop starts at bit 1.
one_count_from_one(data, total_bits, W) == ones_between(data, W, 1, total_bits)

\* one_count after the loop of sparsity_cpu_bitset
one_count(data, total_bits, W) == ones_between(data, W, 0, total_bits)

\* Defect: every bit of every word is scanned, the padding included.
sparsity_cpu_bitset_all_words(data, total_bits, W) ==
  <<Len(data) * W - one_count(data, Len(data) * W, W), Len(data) * W>>

\* Defect: the density one_count / total_bits is returned.
sparsity_cpu_bitset_density(data, total_bits, W) ==
  <<one_count(data, total_bits, W), total_bits>>

\* The double (total_bits - one_count) / (1.0 * total_bits), kept as the pair
\* <<numerator, denominator>>; two such doubles are equal exactly when the
\* fractions are (FracEq), the division being correctly rounded.
sparsity_cpu_bitset(data, total_bits, W) ==
  <<total_bits - one_count(data, total_bits, W), total_bits>>

FracEq(a, b) == a[1] * b[2] = b[1] * a[2]

\* w | (static_cast<bitset_t>(bit) << o)
OrShifted(w, bit, o) == IF bit = 1 THEN OrBit(w, o) ELSE w

\* Defect: one word too many when the bits fill the last word exactly.
output_units_extra(output_bits, W) == output_bits \div W + 1

\* (output_bits + sizeof(bitset_t) * 8 - 1) / (sizeof(bitset_t) * 8)
output_units(output_bits, W) == (output_bits + W - 1) \div W

\* The inner loop of repeat_cpu_bitset for i in lo .. hi-1: bit i of the input is
\* or-ed into the output at bit first + i, where first is output_bit_index at
\* i = 0 (the range is split in halves to keep the evaluation shallow; the
\* writes happen in the order of the loop, each on the finished output of the
\* one before)
RECURSIVE repeat_inner(_, _, _, _, _, _)
repeat_inner(input, W, output, lo, hi, first) ==
  IF Len(output) = 0 \/ hi <= lo THEN output
  ELSE IF hi = lo + 1
  THEN LET bit == BitOf(input[lo \div W + 1], lo % W)
           output_bit_index == first + lo
           u == output_bit_index \div W + 1
       IN [output EXCEPT ![u] = OrShifted(output[u], bit, output_bit_index % W)]
  ELSE LET mid == (lo + hi) \div 2
       IN repeat_inner(input, W, repeat_inner(input, W, output, lo, mid, first),
                       mid, hi, first)

\* The outer loop of repeat_cpu_bitset: repetitions r .. repeat-1;
\* output_bit_index has been incremented r * input_bits times.
RECURSIVE repeat_outer(_, _, _, _, _, _)
repeat_outer(input, input_bits, repeat, W, output, r) ==
  IF Len(output) = 0 \/ r >= repeat THEN output
  ELSE repeat_outer(input, input_bits, repeat, W,
                    repeat_inner(input, W, output, 0, input_bits, r * input_bits),
                    r + 1)

\* Defect: output_bit_index starts again at 0 with every repetition.
RECURSIVE repeat_outer_restart(_, _, _, _, _, _)
repeat_outer_restart(input, input_bits, repeat, W, output, r) ==
  IF Len(output) = 0 \/ r >= repeat THEN output
  ELSE repeat_outer_restart(input, input_bits, repeat, W,
                            repeat_inner(input, W, output, 0, input_bits, 0),
                            r + 1)

repeat_cpu_bitset_restart(input, input_bits, repeat, W) ==
  repeat_outer_restart(input, input_bits, repeat, W,
                       [u \in 1 .. output_units(input_bits * repeat, W) |-> AllZeros(W)], 0)

repeat_cpu_bitset(input, input_bits, repeat, W) ==
  repeat_outer(input, input_bits, repeat, W,
               [u \in 1 .. output_units(input_bits * repeat, W) |-> AllZeros(W)], 0)

\* tail_len ? (bitset_t{1} << tail_len) - 1 : ~bitset_t{0}
tail_mask(total_bits, W) ==
  LET tail_len == total_bits % W
  IN IF tail_len # 0 THEN [o \in 1 .. W |-> IF o - 1 < tail_len THEN 1 ELSE 0]
     ELSE AllOnes(W)

\* a & b
And(a, b) == [o \in DOMAIN a |-> a[o] * b[o]]

\* The number of words in which the repeat result differs from the reference,
\* the last word compared under the tail mask.
errors(ref, result, total_bits, W) ==
  Cardinality({i \in DOMAIN ref :
     IF i = Len(ref)
     THEN And(ref[i], tail_mask(total_bits, W)) # And(result[i], tail_mask(total_bits, W))
     ELSE ref[i] # result[i]})

(***************************************************************************)
(* Reinterpretation of the backing memory at another word width.           *)
(***************************************************************************)
\* The byte at offset b of the array of W-bit words, as its 8 bits; a byte past
\* the end of the allocation holds no defined bits (written 2).
ByteAt(bs, W, b) ==
  LET word == b \div (W \div 8)
      at == b % (W \div 8)
  IN IF word < Len(bs) THEN [k \in 1 .. 8 |-> bs[word + 1][8 * at + k]]
     ELSE [k \in 1 .. 8 |-> 2]

\* reinterpret_cast<view_t*>(data)[index]: the word of nbits_view bits at that
\* index, little-endian
ViewWord(bs, W, nbits_view, index) ==
  [o \in 1 .. nbits_view |->
     ByteAt(bs, W, index * (nbits_view \div 8) + (o - 1) \div 8)[((o - 1) % 8) + 1]]

\* Defect: the position of the original word inside the wider word is dropped.
test_cpu_bitset_nbits_no_ratio(bs, W, query, nbits_view, original_nbits_) ==
  LET original_bit_index == query \div original_nbits_
      original_bit_offset == query % original_nbits_
      base == (original_bit_index * original_nbits_) \div nbits_view
      new_bit_index ==
        IF original_nbits_ > nbits_view THEN base + original_bit_offset \div nbits_view
        ELSE base
      new_bit_offset == original_bit_offset % nbits_view
  IN BitOf(ViewWord(bs, W, nbits_view, new_bit_index), new_bit_offset)

\* test_cpu_bitset_nbits<view_t>(bitset, queries, result, original_nbits_) for
\* one query: the bit it reads (0 or 1, or 2 when read past the allocation)
test_cpu_bitset_nbits(bs, W, query, nbits_view, original_nbits_) ==
  LET original_bit_index == query \div original_nbits_
      original_bit_offset == query % original_nbits_
      base == (original_bit_index * original_nbits_) \div nbits_view
      ratio == nbits_view \div original_nbits_
      new_bit_index ==
        IF original_nbits_ > nbits_view THEN base + original_bit_offset \div nbits_view
        ELSE base
      new_bit_offset ==
        IF original_nbits_ > nbits_view THEN original_bit_offset % nbits_view
        ELSE (original_bit_index % ratio) * original_nbits_
               + (original_bit_offset % nbits_view)
  IN BitOf(ViewWord(bs, W, nbits_view, new_bit_index), new_bit_offset)

(***************************************************************************)
(* The device bitset.                                                      *)
(***************************************************************************)
\* bitset::set(res, mask_index, set_value)
\* (the indices lo .. hi of the list, in their order; the list is split in
\* halves to keep the evaluation shallow)
RECURSIVE set_loop(_, _, _, _, _, _)
set_loop(bs, mask_idx, v, W, lo, hi) ==
  IF Len(bs) = 0 \/ hi < lo THEN bs
  ELSE IF hi = lo
  THEN LET idx == mask_idx[lo]
           u == idx \div W + 1
           w == IF v THEN OrBit(bs[u], idx % W) ELSE AndNotBit(bs[u], idx % W)
       IN [bs EXCEPT ![u] = w]
  ELSE LET mid == (lo + hi) \div 2
       IN set_loop(set_loop(bs, mask_idx, v, W, lo, mid), mask_idx, v, W, mid + 1, hi)

bitset_set(bs, mask_idx, v, W) == set_loop(bs, mask_idx, v, W, 1, Len(mask_idx))

\* bitset::reset(res, default_value): a fill of whole words
bitset_reset(bs, v, W) == [i \in DOMAIN bs |-> IF v THEN AllOnes(W) ELSE AllZeros(W)]

\* popcount of the low n bits of a word
popc(w, n) == Cardinality({o \in 1 .. n : w[o] = 1})

\* bitset::count(res): the sum over the words lo .. hi of the popcount of each,
\* the trailing word masked to the bits below bitset_len (a reduction: the sum
\* is split in halves)
RECURSIVE count_words(_, _, _, _, _)
count_words(bs, N, W, lo, hi) ==
  IF hi < lo THEN 0
  ELSE IF hi = lo
  THEN LET valid == IF lo * W <= N THEN W ELSE N - (lo - 1) * W
       IN popc(bs[lo], valid)
  ELSE LET mid == (lo + hi) \div 2
       IN count_words(bs, N, W, lo, mid) + count_words(bs, N, W, mid + 1, hi)

count(bs, N, W) == count_words(bs, N, W, 1, Len(bs))

any(bs, N, W) == count(bs, N, W) > 0

none(bs, N, W) == count(bs, N, W) = 0

\* bitset_view::sparsity(res): (bitset_len - count) / bitset_len
sparsity(bs, N, W) == <<N - count(bs, N, W), N>>

\* bitset_view::eval_n_elements(bit_count): ceil(bit_count / bits_per_word), the
\* least number of words that holds bit_count bits
eval_n_elements(bit_count, W) ==
  CHOOSE k \in 0 .. bit_count :
    k * W >= bit_count /\ (k = 0 \/ (k - 1) * W < bit_count)

\* bitset_view::repeat(res, times, output): bit j of the output is bit j mod N of
\* the view for j < N * times; the bits of the last word beyond that are
\* unspecified, here all equal to fill
bitset_repeat(bs, N, times, W, fill) ==
  [u \in 1 .. eval_n_elements(N * times, W) |->
     [o \in 1 .. W |->
        LET j == (u - 1) * W + (o - 1)
        IN IF j < N * times THEN BitOf(bs[(j % N) \div W + 1], (j % N) % W) ELSE fill]]

(***************************************************************************)
(* run(): the calls that change my_bitset, in any order and number.        *)
(***************************************************************************)
Init ==
  /\ nbits \in Widths
  /\ bitset_len \in Lens
  /\ bitset = << >>
  /\ op = "fixture"
  /\ mask = << >>
  /\ value = FALSE
  /\ prev = << >>
  /\ out = << >>
  /\ threads = << >>
  /\ perm = << >>

\* raft::core::bitset<bitset_t, index_t>(res, mask, bitset_len)
Construct ==
  /\ op = "fixture"
  /\ \E m \in Masks(bitset_len) :
       /\ bitset' = create_cpu_bitset(ceildiv(bitset_len, nbits), m, nbits)
       /\ mask' = m
  /\ op' = "construct"
  /\ UNCHANGED <<perm, nbits, bitset_len, threads, value, prev, out>>

\* my_bitset.set(res, mask_device.view())
SetDefault ==
  /\ op # "fixture"
  /\ \E m \in SetMasks(bitset_len) :
       bitset' = add_cpu_bitset(bitset, m, nbits)
  /\ op' = "set_default"
  /\ mask' = << >>
  /\ value' = FALSE
  /\ UNCHANGED <<perm, nbits, bitset_len, threads, prev, out>>

\* my_bitset.set(res, indices, v)
Set ==
  /\ op # "fixture"
  /\ \E m \in SetMasks(bitset_len) \cup RangeMasks(bitset_len), v \in BOOLEAN :
       /\ bitset' = bitset_set(bitset, m, v, nbits)
       /\ value' = v
  /\ op' = "set"
  /\ mask' = << >>
  /\ UNCHANGED <<perm, nbits, bitset_len, threads, prev, out>>

\* my_bitset.flip(res)
Flip ==
  /\ op # "fixture"
  /\ bitset' = flip_cpu_bitset(bitset)
  /\ op' = "flip"
  /\ mask' = << >>
  /\ value' = FALSE
  /\ UNCHANGED <<perm, nbits, bitset_len, threads, prev, out>>

\* my_bitset.reset(res, v)
Reset ==
  /\ op # "fixture"
  /\ \E v \in BOOLEAN :
       /\ bitset' = bitset_reset(bitset, v, nbits)
       /\ value' = v
  /\ op' = "reset"
  /\ mask' = << >>
  /\ UNCHANGED <<perm, nbits, bitset_len, threads, prev, out>>

Next == Construct \/ SetDefault \/ Set \/ Flip \/ Reset

Spec == Init /\ [][Next]_vars

(***************************************************************************)
(* Properties of the free-running Spec.                                    *)
(***************************************************************************)
Constructed == op # "fixture"

\* The logical bits that test() reports set.
SetBits(bs) == {i \in 0 .. bitset_len - 1 : test_cpu_bitset(bs, i, nbits)}

\* The positions of the trailing word that lie beyond bitset_len.
Padding == {o \in 0 .. Len(bitset) * nbits - 1 : o >= bitset_len}

RawBit(bs, o) == BitOf(bs[o \div nbits + 1], o % nbits)

\* The words bs with every padding bit forced to b.
WithPadding(bs, b) ==
  [u \in DOMAIN bs |->
     [o \in 1 .. nbits |->
        IF (u - 1) * nbits + (o - 1) >= bitset_len THEN b ELSE bs[u][o]]]

\* C1: after construct(N, mask), with every index of the mask in [0, N), test(i)
\* is true exactly when i is not in the mask, for every i in [0, N).
C1_ConstructTest ==
  op = "construct" =>
    \A i \in 0 .. bitset_len - 1 :
      test_cpu_bitset(bitset, i, nbits) = (i \notin Range(mask))

\* A constructed two-word bitset whose mask repeats an index of the second word.
C1_Witness ==
  /\ op = "construct"
  /\ Len(bitset) = 2
  /\ Len(mask) = 2
  /\ mask[1] = mask[2]
  /\ mask[1] >= nbits
  /\ ~ test_cpu_bitset(bitset, mask[1], nbits)

\* A constructed bitset whose mask is longer than the bitset.
C1_WitnessLongMask ==
  /\ op = "construct"
  /\ Len(mask) > bitset_len

\* C2: count() right after construct(N, mask) is N minus the number of distinct
\* indices of the mask; N = 32 with mask {0, 3, 7, 31} gives 28.
C2_ConstructCount ==
  op = "construct" =>
    /\ count(bitset, bitset_len, nbits) = bitset_len - Cardinality(Range(mask))
    /\ one_count(bitset, bitset_len, nbits) = bitset_len - Cardinality(Range(mask))
    /\ (bitset_len = 32 /\ mask = <<0, 3, 7, 31>>) =>
         /\ count(bitset, bitset_len, nbits) = 28
         /\ \A i \in {0, 3, 7, 31} : ~ test_cpu_bitset(bitset, i, nbits)
         /\ \A i \in {1, 2, 4} : test_cpu_bitset(bitset, i, nbits)

\* The scenario of length 32 with mask {0, 3, 7, 31}, counted.
C2_Witness ==
  /\ op = "construct"
  /\ bitset_len = 32
  /\ mask = <<0, 3, 7, 31>>
  /\ count(bitset, bitset_len, nbits) = 28

\* C4: in every constructed state one flip() complements the count and every
\* logical bit, and a second flip() restores every logical bit.
C4_FlipInvolution ==
  Constructed =>
    LET once == flip_cpu_bitset(bitset)
        twice == flip_cpu_bitset(once)
    IN /\ count(once, bitset_len, nbits) = bitset_len - count(bitset, bitset_len, nbits)
       /\ SetBits(once) = (0 .. bitset_len - 1) \ SetBits(bitset)
       /\ SetBits(twice) = SetBits(bitset)

\* A flipped bitset whose length is no multiple of the word width and whose
\* bits are neither all set nor all clear.
C4_Witness ==
  /\ op = "flip"
  /\ bitset_len % nbits # 0
  /\ Len(bitset) = 2
  /\ count(bitset, bitset_len, nbits) \notin {0, bitset_len}

\* C8: in every constructed state count(), any(), none() and sparsity() are
\* those of the logical bits [0, N) alone, whatever the padding bits hold.
C8_PaddingIgnored ==
  Constructed =>
    /\ count(bitset, bitset_len, nbits) = Cardinality(SetBits(bitset))
    /\ any(bitset, bitset_len, nbits) = (SetBits(bitset) # {})
    /\ none(bitset, bitset_len, nbits) = (SetBits(bitset) = {})
    /\ sparsity(bitset, bitset_len, nbits) = sparsity_cpu_bitset(bitset, bitset_len, nbits)
    /\ \E b \in {0, 1} : bitset = WithPadding(bitset, b)
    /\ op = "construct" => bitset = WithPadding(bitset, 1)
    /\ \A b \in {0, 1} :
         LET p == WithPadding(bitset, b)
         IN /\ count(p, bitset_len, nbits) = count(bitset, bitset_len, nbits)
            /\ any(p, bitset_len, nbits) = any(bitset, bitset_len, nbits)
            /\ none(p, bitset_len, nbits) = none(bitset, bitset_len, nbits)
            /\ sparsity(p, bitset_len, nbits) = sparsity(bitset, bitset_len, nbits)
            /\ sparsity_cpu_bitset(p, bitset_len, nbits)
                 = sparsity_cpu_bitset(bitset, bitset_len, nbits)

\* A flipped bitset with padding, every padding bit zero, some logical bit set
\* and some clear.
C8_Witness ==
  /\ op = "flip"
  /\ Padding # {}
  /\ \A o \in Padding : RawBit(bitset, o) = 0
  /\ count(bitset, bitset_len, nbits) \notin {0, bitset_len}

(***************************************************************************)
(* One recorded call of set() on a constructed bitset: the words before the *)
(* call and the index list are kept beside the result.                     *)
(***************************************************************************)
\* The words my_bitset can hold when set() is called: as constructed, flipped,
\* or reset.
PreStates(N, W) ==
  LET C == {create_cpu_bitset(ceildiv(N, W), m, W) : m \in Masks(N)}
  IN C \cup {flip_cpu_bitset(b) : b \in C}
       \cup {bitset_reset(b, v, W) : b \in C, v \in BOOLEAN}

\* Index lists handed to the recorded set().
OpMasks(N) == IF N <= MaxLen THEN Masks(N) ELSE SetMasks(N) \cup {<<0, N - 1>>}

InitOps ==
  /\ nbits \in Widths
  /\ bitset_len \in Lens
  /\ bitset \in PreStates(bitset_len, nbits)
  /\ op = "ready"
  /\ mask = << >>
  /\ value = FALSE
  /\ prev = << >>
  /\ out = << >>
  /\ threads = << >>
  /\ perm = << >>

\* my_bitset.set(res, mask_device.view())
OpSetDefault ==
  /\ op = "ready"
  /\ \E m \in OpMasks(bitset_len) :
       /\ bitset' = add_cpu_bitset(bitset, m, nbits)
       /\ mask' = m
  /\ prev' = bitset
  /\ op' = "set_default"
  /\ UNCHANGED <<perm, nbits, bitset_len, threads, value, out>>

\* my_bitset.set(res, indices, v)
OpSet ==
  /\ op = "ready"
  /\ \E m \in OpMasks(bitset_len) \cup RangeMasks(bitset_len), v \in BOOLEAN :
       /\ bitset' = bitset_set(bitset, m, v, nbits)
       /\ mask' = m
       /\ value' = v
  /\ prev' = bitset
  /\ op' = "set"
  /\ UNCHANGED <<perm, nbits, bitset_len, threads, out>>

NextOps == OpSetDefault \/ OpSet

SpecOps == InitOps /\ [][NextOps]_vars

\* The index list s with every repetition of an index dropped.
Dedup(s) ==
  LET first == {i \in DOMAIN s : \A j \in 1 .. i - 1 : s[j] # s[i]}
  IN IF Cardinality(first) = Len(s) THEN s
     ELSE [k \in 1 .. Cardinality(first) |->
             s[CHOOSE i \in first : Cardinality({j \in first : j < i}) = k - 1]]

\* C9, as stated: after set(indices) without a value argument every listed bit
\* is 1.
C9_DefaultSetsBits ==
  op = "set_default" =>
    \A i \in Range(mask) : test_cpu_bitset(bitset, i, nbits)

\* C9, amended: after set(indices) without a value argument every listed bit is
\* 0 and every other logical bit is unchanged, as after set(indices, false).
C9_DefaultClearsBits ==
  op = "set_default" =>
    /\ \A i \in 0 .. bitset_len - 1 :
         test_cpu_bitset(bitset, i, nbits)
           = (i \notin Range(mask) /\ test_cpu_bitset(prev, i, nbits))
    /\ bitset = bitset_set(prev, mask, FALSE, nbits)

\* A set() without value whose list names a bit that was 1 before the call.
C9_Witness ==
  /\ op = "set_default"
  /\ \E i \in Range(mask) :
       test_cpu_bitset(prev, i, nbits) /\ ~ test_cpu_bitset(bitset, i, nbits)

\* C10: after set(indices, v) with every index in [0, N) each listed bit equals
\* v and each unlisted logical bit is unchanged; a repeated index acts as if
\* listed once; after reset(false), set({0..k-1}, true) leaves count() = k.
C10_SetFrame ==
  op = "set" =>
    /\ \A i \in 0 .. bitset_len - 1 :
         test_cpu_bitset(bitset, i, nbits)
           = IF i \in Range(mask) THEN value ELSE test_cpu_bitset(prev, i, nbits)
    /\ bitset = bitset_set(prev, Dedup(mask), value, nbits)
    /\ (prev = bitset_reset(prev, FALSE, nbits) /\ value /\ mask = range(Len(mask)))
         => count(bitset, bitset_len, nbits) = Len(mask)

\* A set(indices, true) that repeats an index whose bit was 0 and leaves
\* another 0 bit unlisted.
C10_Witness ==
  /\ op = "set"
  /\ value
  /\ Len(mask) = 2
  /\ mask[1] = mask[2]
  /\ ~ test_cpu_bitset(prev, mask[1], nbits)
  /\ \E i \in 0 .. bitset_len - 1 :
       i \notin Range(mask) /\ ~ test_cpu_bitset(bitset, i, nbits)

\* reset(false) followed by set({0..k-1}, true) with 2 <= k < N.
C10_WitnessRange ==
  /\ op = "set"
  /\ value
  /\ prev = bitset_reset(prev, FALSE, nbits)
  /\ Len(mask) >= 2
  /\ Len(mask) < bitset_len
  /\ mask = range(Len(mask))
  /\ count(bitset, bitset_len, nbits) = Len(mask)

(***************************************************************************)
(* One read-only call on a constructed bitset: a reinterpreting view tested *)
(* at every index, or repeat into a fresh destination.                     *)
(***************************************************************************)
\* Lengths of the read-only calls: the small ones, and lengths that span
\* several words of every width (55 bits is the length repeated 13 times).
ViewLens == (1 .. MaxLen) \cup {32, 55, 70, 100}

\* The word widths of the views the test builds.
ViewWidths == {8, 32, 64}

\* spec.repeat_times
Times(N) == (1 .. MaxTimes) \cup (IF N = 55 THEN {13} ELSE {})

InitView ==
  /\ nbits \in Widths
  /\ bitset_len \in ViewLens
  /\ bitset \in PreStates(bitset_len, nbits)
  /\ op = "ready"
  /\ mask = << >>
  /\ value = FALSE
  /\ prev = << >>
  /\ out = << >>
  /\ threads = << >>
  /\ perm = << >>

\* bitset_view<view_t, uint32_t>(reinterpret_cast<view_t*>(my_bitset.data()),
\* my_bitset.size(), sizeof(bitset_t) * 8).test(query) for every query
ViewTest ==
  /\ op = "ready"
  /\ \E vb \in ViewWidths :
       out' = [nbits_view |-> vb,
               result |-> [q \in 1 .. bitset_len |->
                             test_cpu_bitset_nbits(bitset, nbits, q - 1, vb, nbits)]]
  /\ op' = "view_test"
  /\ UNCHANGED <<perm, nbits, bitset_len, threads, bitset, mask, value, prev>>

\* my_bitset_view.repeat(res, repeat_times, repeat_device) beside
\* repeat_cpu_bitset(bitset_ref, bitset_len, repeat_times, bitset_repeat_ref)
Repeat ==
  /\ op = "ready"
  /\ \E t \in Times(bitset_len), fill \in {0, 1} :
       out' = [times |-> t,
               ref |-> repeat_cpu_bitset(bitset, bitset_len, t, nbits),
               result |-> bitset_repeat(bitset, bitset_len, t, nbits, fill)]
  /\ op' = "repeat"
  /\ UNCHANGED <<perm, nbits, bitset_len, threads, bitset, mask, value, prev>>

\* my_bitset_view.sparsity(res) beside sparsity_cpu_bitset(bitset_ref, bitset_len)
Sparsity ==
  /\ op = "ready"
  /\ out' = [sparsity_result |-> sparsity(bitset, bitset_len, nbits),
             sparsity_ref |-> sparsity_cpu_bitset(bitset, bitset_len, nbits)]
  /\ op' = "sparsity"
  /\ UNCHANGED <<perm, nbits, bitset_len, threads, bitset, mask, value, prev>>

NextView == ViewTest \/ Repeat \/ Sparsity

SpecView == InitView /\ [][NextView]_vars

\* C3: a view of width 8, 32 or 64 over the bytes of a bitset of native width W,
\* told W, reads at every index of [0, N) a bit inside the allocation, and the
\* same boolean as test() at the native width.
C3_ViewEquivalence ==
  op = "view_test" =>
    \A i \in 0 .. bitset_len - 1 :
      /\ out.result[i + 1] \in {0, 1}
      /\ (out.result[i + 1] # 0) = test_cpu_bitset(bitset, i, nbits)

\* A view narrower than the native words, and one wider, each reading a clear
\* bit beyond the first native word.
C3_Witness ==
  /\ op = "view_test"
  /\ nbits = 16
  /\ out.nbits_view = 64
  /\ \E i \in nbits .. bitset_len - 1 :
       ~ test_cpu_bitset(bitset, i, nbits) /\ out.result[i + 1] = 0

C3_WitnessNarrow ==
  /\ op = "view_test"
  /\ nbits = 64
  /\ out.nbits_view = 8
  /\ \E i \in nbits .. bitset_len - 1 :
       ~ test_cpu_bitset(bitset, i, nbits) /\ out.result[i + 1] = 0

\* C5: bit j of the repeat destination is bit j mod N of the view for every j in
\* [0, N * times), the host reference has the same bits, and the destination
\* equals the reference in every word but the last and in the valid tail bits
\* of the last.
C5_RepeatBits ==
  op = "repeat" =>
    LET total == bitset_len * out.times
    IN /\ \A j \in 0 .. total - 1 :
            /\ RawBit(out.result, j) = RawBit(bitset, j % bitset_len)
            /\ RawBit(out.ref, j) = RawBit(bitset, j % bitset_len)
       /\ errors(out.ref, out.result, total, nbits) = 0

\* A repeat of a length that is no multiple of the word width, at least twice,
\* whose copies meet inside a word and whose unspecified tail differs from the
\* reference.
C5_Witness ==
  /\ op = "repeat"
  /\ out.times >= 2
  /\ bitset_len % nbits # 0
  /\ bitset_len > nbits
  /\ out.ref # out.result
  /\ \E j \in 0 .. bitset_len - 1 : RawBit(bitset, j) = 0

\* C6: the repeated sequence has times * count set bits over [0, N * times) and
\* the sparsity of the original view.
C6_RepeatDensity ==
  op = "repeat" =>
    LET total == bitset_len * out.times
        dest_len == total
    IN /\ one_count(out.result, total, nbits)
            = out.times * one_count(bitset, bitset_len, nbits)
       /\ count(out.result, dest_len, nbits) = out.times * count(bitset, bitset_len, nbits)
       /\ FracEq(sparsity_cpu_bitset(out.result, total, nbits),
                 sparsity_cpu_bitset(bitset, bitset_len, nbits))
       /\ FracEq(sparsity(out.result, dest_len, nbits), sparsity(bitset, bitset_len, nbits))

\* 55 bits repeated 13 times in 64-bit words, some bits set and some clear.
C6_Witness ==
  /\ op = "repeat"
  /\ bitset_len = 55
  /\ out.times = 13
  /\ nbits = 64
  /\ one_count(bitset, bitset_len, nbits) \notin {0, bitset_len}
  /\ one_count(out.result, 715, nbits) = 13 * one_count(bitset, bitset_len, nbits)

\* C7: eval_n_elements(N * times) is the ceiling of N * times / nbits as the
\* test and the host reference compute it, every bit index below N * times
\* falls in a word below it, and repeat writes exactly that many words.
C7_EvalNElements ==
  op = "repeat" =>
    LET total == bitset_len * out.times
    IN \A n \in {eval_n_elements(total, nbits)} :
         /\ n = ceildiv(total, nbits)
         /\ n = output_units(total, nbits)
         /\ n * nbits >= total
         /\ (n - 1) * nbits < total
         /\ \A j \in 0 .. total - 1 : j \div nbits < n
         /\ Len(out.ref) = n
         /\ Len(out.result) = n

\* A repeat whose bits fill the last destination word exactly, and one whose
\* bits leave it partly unused.
C7_Witness ==
  /\ op = "repeat"
  /\ (bitset_len * out.times) % nbits = 0
  /\ Len(out.result) >= 2

C7_WitnessPartial ==
  /\ op = "repeat"
  /\ (bitset_len * out.times) % nbits # 0
  /\ Len(out.result) >= 2

(***************************************************************************)
(* The count operations of run(): a recorded set() with a value, reset()   *)
(* and the set() of the whole range that follows it.                       *)
(***************************************************************************)
\* The lengths of the free-running Spec and the length of the scenario that
\* clears the bits 0 and 99.
ResetLens == Lens \cup {100}

\* Index lists handed to the recorded set(): one index, or the first and the
\* last bit.
ResetMasks(N) == SetMasks(N) \cup {<<0, N - 1>>}

InitReset ==
  /\ nbits \in Widths
  /\ bitset_len \in ResetLens
  /\ bitset \in PreStates(bitset_len, nbits)
  /\ op = "ready"
  /\ mask = << >>
  /\ value = FALSE
  /\ prev = << >>
  /\ out = << >>
  /\ threads = << >>
  /\ perm = << >>

\* my_bitset.set(res, indices, v)
RsSet ==
  /\ op = "ready"
  /\ \E m \in ResetMasks(bitset_len), v \in BOOLEAN :
       /\ bitset' = bitset_set(bitset, m, v, nbits)
       /\ mask' = m
       /\ value' = v
  /\ prev' = bitset
  /\ op' = "set"
  /\ UNCHANGED <<perm, nbits, bitset_len, threads, out>>

\* my_bitset.reset(res, v)
RsReset ==
  /\ op \in {"ready", "set"}
  /\ \E v \in BOOLEAN :
       /\ bitset' = bitset_reset(bitset, v, nbits)
       /\ value' = v
  /\ prev' = bitset
  /\ mask' = << >>
  /\ op' = "reset"
  /\ UNCHANGED <<perm, nbits, bitset_len, threads, out>>

\* raft::linalg::range(query_device); my_bitset.set(res, query_device, true)
RsSetRange ==
  /\ op = "reset"
  /\ bitset' = bitset_set(bitset, range(bitset_len), TRUE, nbits)
  /\ mask' = range(bitset_len)
  /\ value' = TRUE
  /\ prev' = bitset
  /\ op' = "set_range"
  /\ UNCHANGED <<perm, nbits, bitset_len, threads, out>>

NextReset == RsSet \/ RsReset \/ RsSetRange

SpecReset == InitReset /\ [][NextReset]_vars

\* The scenario: 100 bits, all set, then set([0, 99], false).
Scenario100 ==
  /\ op = "set"
  /\ bitset_len = 100
  /\ prev = create_cpu_bitset(ceildiv(100, nbits), << >>, nbits)
  /\ mask = <<0, 99>>
  /\ value = FALSE

\* C11: reset(v) makes every logical bit equal to v, whatever the words held:
\* after reset(false) count() is 0, any() false and none() true, after
\* reset(true) count() is N; with 100 bits all set, set([0, 99], false) leaves
\* count() 98, any() true and none() false, and reset(false) on that gives
\* count() 0 and none() true.
C11_ResetAll ==
  /\ op = "reset" =>
       /\ SetBits(bitset) = (IF value THEN 0 .. bitset_len - 1 ELSE {})
       /\ count(bitset, bitset_len, nbits) = (IF value THEN bitset_len ELSE 0)
       /\ any(bitset, bitset_len, nbits) = value
       /\ none(bitset, bitset_len, nbits) = ~ value
  /\ Scenario100 =>
       /\ SetBits(bitset) = 1 .. 98
       /\ count(bitset, bitset_len, nbits) = 98
       /\ any(bitset, bitset_len, nbits)
       /\ ~ none(bitset, bitset_len, nbits)
       /\ LET r == bitset_reset(bitset, FALSE, nbits)
          IN /\ count(r, bitset_len, nbits) = 0
             /\ none(r, bitset_len, nbits)

\* reset(false) on the scenario's bitset of 98 set bits.
C11_Witness ==
  /\ op = "reset"
  /\ ~ value
  /\ bitset_len = 100
  /\ count(prev, bitset_len, nbits) = 98
  /\ ~ test_cpu_bitset(prev, 0, nbits)
  /\ ~ test_cpu_bitset(prev, 99, nbits)
  /\ count(bitset, bitset_len, nbits) = 0

\* reset(true) on a bitset with padding whose bits were neither all set nor all
\* clear.
C11_WitnessTrue ==
  /\ op = "reset"
  /\ value
  /\ Padding # {}
  /\ count(prev, bitset_len, nbits) \notin {0, bitset_len}
  /\ count(bitset, bitset_len, nbits) = bitset_len

\* The scenario's set() itself.
C11_WitnessScenario == Scenario100 /\ count(bitset, bitset_len, nbits) = 98

(***************************************************************************)
(* The constructor handed an index list that need not lie in the bitset.   *)
(***************************************************************************)
\* Defect: an index outside [0, bitset_len) is skipped and the bitset is built
\* from the others.
bitset_construct_skipping(N, mask_idx, W) ==
  [error |-> "none",
   device_work |-> TRUE,
   words |-> create_cpu_bitset(ceildiv(N, W),
                               SelectSeq(mask_idx, LAMBDA i : i < N), W)]

\* raft::core::bitset<bitset_t, index_t>(res, mask_index, bitset_len): the
\* index list is validated on the host before any work is put on the stream
\* and then ceildiv(bitset_len, bits per word) words are allocated, every bit
\* is set and the bit of each index is cleared
bitset_construct(N, mask_idx, W) ==
  IF \E i \in DOMAIN mask_idx : mask_idx[i] < 0 \/ mask_idx[i] >= N
  THEN [error |-> "InvalidArgument", device_work |-> FALSE, words |-> << >>]
  ELSE [error |-> "none",
        device_work |-> TRUE,
        words |-> bitset_set(bitset_reset([u \in 1 .. ceildiv(N, W) |-> AllZeros(W)],
                                          TRUE, W),
                             mask_idx, FALSE, W)]

\* Values of index_t a caller can hand over: those of the bitset, the first
\* beyond it, the last of its trailing word and the first beyond its words.
AnyIndices(N, W) ==
  Indices(N) \cup {N, ceildiv(N, W) * W - 1, ceildiv(N, W) * W}

AnyMasks(N, W) == SeqsUpTo(AnyIndices(N, W), MaxMaskLen)

InitConstruct ==
  /\ nbits \in Widths
  /\ bitset_len \in Lens
  /\ bitset = << >>
  /\ op = "fixture"
  /\ mask = << >>
  /\ value = FALSE
  /\ prev = << >>
  /\ out = << >>
  /\ threads = << >>
  /\ perm = << >>

\* raft::core::bitset<bitset_t, index_t>(res, mask, bitset_len), mask arbitrary
ConstructAny ==
  /\ op = "fixture"
  /\ \E m \in AnyMasks(bitset_len, nbits) :
       LET r == bitset_construct(bitset_len, m, nbits)
       IN /\ mask' = m
          /\ out' = [error |-> r.error, device_work |-> r.device_work]
          /\ bitset' = r.words
          /\ op' = IF r.error = "none" THEN "construct" ELSE "construct_failed"
  /\ UNCHANGED <<perm, nbits, bitset_len, threads, value, prev>>

NextConstruct == ConstructAny

SpecConstruct == InitConstruct /\ [][NextConstruct]_vars

C12_WitnessBeyond ==
  /\ op = "construct_failed"
  /\ \E i \in Range(mask) : i >= ceildiv(bitset_len, nbits) * nbits

(***************************************************************************)
(* The kernel of set(): one device thread per index of the list, each      *)
(* updating the word of its bit with an atomic read-modify-write, in any   *)
(* interleaving.                                                           *)
(***************************************************************************)
MaxThreads == 3    \* longest index list handed to the kernel, one thread each

\* Defect: a plain store in place of the compare-and-swap.
plain_store(word, compare, val) == val

\* atomicCAS(address, compare, val): the word at the address after the call
atomicCAS(word, compare, val) == IF word = compare THEN val ELSE word

\* Indices of the kernel's list: two of the first word and the last bit.
KernelIndices(N) == {0, 1, N - 1} \cap (0 .. N - 1)

KernelMasks(N) == SeqsUpTo(KernelIndices(N), MaxThreads)

\* The words my_bitset holds when the kernel is launched: as constructed, or
\* flipped after that.
KernelPreStates(N, W) ==
  LET C == {create_cpu_bitset(ceildiv(N, W), m, W) : m \in {<< >>, <<0>>}}
  IN C \cup {flip_cpu_bitset(b) : b \in C}

InitKernel ==
  /\ nbits \in Widths
  /\ bitset_len = MaxLen
  /\ bitset \in KernelPreStates(bitset_len, nbits)
  /\ op = "ready"
  /\ mask = << >>
  /\ value = FALSE
  /\ prev = << >>
  /\ out = << >>
  /\ threads = << >>
  /\ perm = << >>

\* my_bitset.set(res, indices, v): the launch, one thread per index
Launch ==
  /\ op = "ready"
  /\ \E m \in KernelMasks(bitset_len), v \in BOOLEAN :
       /\ mask' = m
       /\ value' = v
       /\ threads' = [t \in DOMAIN m |-> [pc |-> "load", old |-> << >>]]
  /\ prev' = bitset
  /\ op' = "set_kernel"
  /\ UNCHANGED <<perm, nbits, bitset_len, bitset, out>>

\* thread t reads the word of its bit
Load(t) ==
  /\ op = "set_kernel"
  /\ threads[t].pc = "load"
  /\ threads' = [threads EXCEPT ![t] = [pc |-> "cas",
                                        old |-> bitset[mask[t] \div nbits + 1]]]
  /\ UNCHANGED <<perm, nbits, bitset_len, bitset, op, mask, value, prev, out>>

\* thread t swaps in the word with its bit updated if the word is still the one
\* it read, and reads again if it is not
Cas(t) ==
  /\ op = "set_kernel"
  /\ threads[t].pc = "cas"
  /\ LET u == mask[t] \div nbits + 1
         old == threads[t].old
         new == IF value THEN OrBit(old, mask[t] % nbits)
                         ELSE AndNotBit(old, mask[t] % nbits)
     IN /\ bitset' = [bitset EXCEPT ![u] = atomicCAS(bitset[u], old, new)]
        /\ threads' = [threads EXCEPT ![t] =
                         IF bitset[u] = old THEN [pc |-> "done", old |-> << >>]
                                            ELSE [pc |-> "load", old |-> << >>]]
  /\ UNCHANGED <<perm, nbits, bitset_len, op, mask, value, prev, out>>

\* resource::sync_stream(res, stream): every thread of the kernel has finished
Sync ==
  /\ op = "set_kernel"
  /\ \A t \in DOMAIN threads : threads[t].pc = "done"
  /\ op' = "set_done"
  /\ UNCHANGED <<perm, nbits, bitset_len, bitset, mask, value, prev, out, threads>>

NextKernel ==
  \/ Launch
  \/ \E t \in DOMAIN threads : Load(t)
  \/ \E t \in DOMAIN threads : Cas(t)
  \/ Sync

SpecKernel == InitKernel /\ [][NextKernel]_vars

\* C13: set() loses no update: whatever the interleaving of the threads, one
\* per index, several of them on the same word or on the same index, the
\* words after the kernel are those of applying the indices one after another.
C13_NoLostUpdate ==
  op = "set_done" =>
    /\ bitset = bitset_set(prev, mask, value, nbits)
    /\ ~ value => bitset = add_cpu_bitset(prev, mask, nbits)

\* A finished kernel of three threads on one word, two of them on the same
\* index, that changed the word.
C13_Witness ==
  /\ op = "set_done"
  /\ Len(mask) = 3
  /\ mask[1] = mask[3]
  /\ mask[1] # mask[2]
  /\ mask[1] \div nbits = mask[2] \div nbits
  /\ bitset # prev

\* A thread whose compare-and-swap is about to fail: another thread has changed
\* the word since it was read.
C13_WitnessContended ==
  /\ op = "set_kernel"
  /\ \E t \in DOMAIN threads :
       /\ threads[t].pc = "cas"
       /\ threads[t].old # bitset[mask[t] \div nbits + 1]

(***************************************************************************)
(* Properties of sparsity() in SpecView.                                   *)
(***************************************************************************)
\* The logical bits that test() reports clear.
ZeroBits(bs) == {i \in 0 .. bitset_len - 1 : ~ test_cpu_bitset(bs, i, nbits)}

\* C14: sparsity() of a view over N >= 1 bits is (N - count()) / N, the
\* fraction of the bits of [0, N) that are zero, which is one minus the density
\* count() / N, and it is equal to the result of the host reference that scans
\* the bits 0 .. N-1 one by one.
C14_Sparsity ==
  op = "sparsity" =>
    LET s == out.sparsity_result
        c == count(bitset, bitset_len, nbits)
    IN /\ bitset_len >= 1
       /\ FracEq(s, <<bitset_len - c, bitset_len>>)
       /\ FracEq(s, <<Cardinality(ZeroBits(bitset)), bitset_len>>)
       /\ s[1] * bitset_len + c * s[2] = s[2] * bitset_len
       /\ FracEq(s, out.sparsity_ref)
       /\ s = out.sparsity_ref

\* The sparsity of a bitset with padding, neither 0 nor 1, whose padding bits
\* are set.
C14_Witness ==
  /\ op = "sparsity"
  /\ bitset_len % nbits # 0
  /\ \E o \in Padding : RawBit(bitset, o) = 1
  /\ out.sparsity_result[1] \notin {0, bitset_len}
  /\ out.sparsity_result = out.sparsity_ref

\* The sparsity of the bitset of 100 bits with two bits clear: 2 / 100.
C14_WitnessHundred ==
  /\ op = "sparsity"
  /\ bitset_len = 100
  /\ out.sparsity_result = <<2, 100>>

(***************************************************************************)
(* run() in its order: the constructor, set(), the calls that only read,   *)
(* flip(); the device words in bitset, the host reference bitset_ref       *)
(* beside them.                                                            *)
(***************************************************************************)
\* bitset::flip(res): every word of the storage is complemented
bitset_flip(bs) == [i \in DOMAIN bs |-> Not(bs[i])]

\* Index lists handed to the constructor of the run.
RunMasks(N) == SetMasks(N) \cup (IF N = 32 THEN {<<0, 3, 7, 31>>} ELSE {})

ReadOps == {"test", "view_test", "sparsity", "repeat", "count"}

InitRun ==
  /\ nbits \in Widths
  /\ bitset_len \in Lens
  /\ bitset = << >>
  /\ op = "fixture"
  /\ mask = << >>
  /\ value = FALSE
  /\ prev = << >>
  /\ out = << >>
  /\ threads = << >>
  /\ perm = << >>

\* raft::core::bitset<bitset_t, index_t>(res, mask, bitset_len) beside
\* create_cpu_bitset(bitset_ref, mask_cpu)
RunConstruct ==
  /\ op = "fixture"
  /\ \E m \in RunMasks(bitset_len) :
       /\ bitset' = bitset_construct(bitset_len, m, nbits).words
       /\ out' = [bitset_ref |-> create_cpu_bitset(ceildiv(bitset_len, nbits), m, nbits),
                  mask2 |-> << >>,
                  result |-> << >>]
       /\ mask' = m
  /\ op' = "construct"
  /\ UNCHANGED <<perm, nbits, bitset_len, threads, value, prev>>

\* my_bitset.set(res, mask_device.view()) beside add_cpu_bitset(bitset_ref,
\* mask_cpu)
RunSet ==
  /\ op = "construct"
  /\ \E m2 \in SetMasks(bitset_len) :
       /\ bitset' = bitset_set(bitset, m2, FALSE, nbits)
       /\ out' = [bitset_ref |-> add_cpu_bitset(out.bitset_ref, m2, nbits),
                  mask2 |-> m2,
                  result |-> << >>]
  /\ prev' = bitset
  /\ op' = "set"
  /\ UNCHANGED <<perm, nbits, bitset_len, threads, mask, value>>

\* The calls that only read, in the order of run(): each follows the call named
\* after, writes its result and nothing else.
RunRead(after, name, result) ==
  /\ op = after
  /\ out' = [out EXCEPT !.result = result]
  /\ prev' = bitset
  /\ op' = name
  /\ UNCHANGED <<perm, nbits, bitset_len, threads, bitset, mask, value>>

\* my_bitset.test(res, query, result)
RunTest ==
  RunRead("set", "test", [q \in 1 .. bitset_len |-> test_cpu_bitset(bitset, q - 1, nbits)])

\* bitset_view<view_t>(my_bitset.data(), ...).test(query)
RunViewTest ==
  \E vb \in ViewWidths :
    RunRead("test", "view_test",
            [q \in 1 .. bitset_len |->
               test_cpu_bitset_nbits(bitset, nbits, q - 1, vb, nbits)])

\* my_bitset_view.sparsity(res)
RunSparsity == RunRead("view_test", "sparsity", sparsity(bitset, bitset_len, nbits))

\* my_bitset_view.repeat(res, repeat_times, repeat_device)
RunRepeat ==
  \E t \in {1, MaxTimes} :
    RunRead("sparsity", "repeat", bitset_repeat(bitset, bitset_len, t, nbits, 0))

\* my_bitset.count(res)
RunCount == RunRead("repeat", "count", count(bitset, bitset_len, nbits))

\* my_bitset.flip(res) beside flip_cpu_bitset(bitset_ref)
RunFlip ==
  /\ op \in {"set"} \cup ReadOps
  /\ bitset' = bitset_flip(bitset)
  /\ out' = [out EXCEPT !.bitset_ref = flip_cpu_bitset(@), !.result = << >>]
  /\ prev' = bitset
  /\ op' = "flip"
  /\ UNCHANGED <<perm, nbits, bitset_len, threads, mask, value>>

NextRun ==
  \/ RunConstruct
  \/ RunSet
  \/ RunTest
  \/ RunViewTest
  \/ RunSparsity
  \/ RunRepeat
  \/ RunCount
  \/ RunFlip

SpecRun == InitRun /\ [][NextRun]_vars

\* Every bit position of the words, the padding included.
RawPositions == 0 .. Len(bitset) * nbits - 1

\* C15: across construct, set, the calls that only read and flip the device
\* words equal the host reference word for word, padding included: after the
\* constructor all ones but the bits of the mask, after set(mask2) all ones but
\* the bits of either list, unchanged by test, view test, sparsity, repeat and
\* count, and after flip the complement of every whole word.
C15_WordsTrackOracle ==
  op # "fixture" =>
    /\ bitset = out.bitset_ref
    /\ Len(bitset) = ceildiv(bitset_len, nbits)
    /\ op = "construct" =>
         \A o \in RawPositions :
           RawBit(bitset, o) = (IF o \in Range(mask) THEN 0 ELSE 1)
    /\ op \in {"set"} \cup ReadOps =>
         \A o \in RawPositions :
           RawBit(bitset, o) = (IF o \in Range(mask) \cup Range(out.mask2) THEN 0 ELSE 1)
    /\ op \in ReadOps => bitset = prev
    /\ op = "flip" =>
         /\ \A u \in DOMAIN bitset : bitset[u] = Not(prev[u])
         /\ \A o \in RawPositions :
              RawBit(bitset, o) = (IF o \in Range(mask) \cup Range(out.mask2) THEN 1 ELSE 0)

\* The flipped words of a bitset with padding, built from two different
\* indices, after a repeat: the padding is zero.
C15_Witness ==
  /\ op = "flip"
  /\ Padding # {}
  /\ Len(mask) = 1
  /\ Len(out.mask2) = 1
  /\ mask # out.mask2
  /\ \A o \in Padding : RawBit(bitset, o) = 0
  /\ bitset = out.bitset_ref

\* A read between set and flip: the result of repeat is there and the words are
\* those set() left.
C15_WitnessRead ==
  /\ op = "repeat"
  /\ Len(out.result) > Len(bitset)
  /\ out.mask2 # << >>
  /\ bitset = prev

(***************************************************************************)
(* random::detail::permute: the host draws a and b, the threads of         *)
(* permuteKernel write perms.                                              *)
(***************************************************************************)
MaxN == 8       \* every N in 1..MaxN is explored
MaxRand == 11   \* rand() returns every value in 0..MaxRand

\* raft::gcd(a, b), by Euclid's algorithm
RECURSIVE gcd(_, _)
gcd(a, b) == IF b = 0 THEN a ELSE gcd(b, a % b)

\* Defect: a and b change places.
inIdx_swapped(a, b, tid, N) == ((b * tid) + a) % N

\* IntType inIdx = ((a * int64_t(tid)) + b) % N
inIdx(a, b, tid, N) == ((a * tid) + b) % N

\* perms[tid] before thread tid has written it
Unwritten == -1

InitPermute ==
  /\ nbits = 8
  /\ bitset_len = 1
  /\ bitset = << >>
  /\ op = "fixture"
  /\ mask = << >>
  /\ value = FALSE
  /\ prev = << >>
  /\ out = << >>
  /\ threads = << >>
  /\ \E n \in 1 .. MaxN :
       perm = [pc |-> "draw_a", N |-> n, a |-> 0, b |-> 0,
               perms |-> [tid \in 0 .. n - 1 |-> Unwritten]]

bitset_vars == <<nbits, bitset_len, bitset, op, mask, value, prev, out, threads>>

\* IdxType a = rand() % N
DrawA ==
  /\ perm.pc = "draw_a"
  /\ \E r \in 0 .. MaxRand :
       perm' = [perm EXCEPT !.a = r % perm.N, !.pc = "search"]
  /\ UNCHANGED bitset_vars

\* while (raft::gcd(a, N) != 1) a = (a + 1) % N
SearchStep ==
  /\ perm.pc = "search"
  /\ gcd(perm.a, perm.N) # 1
  /\ perm' = [perm EXCEPT !.a = (perm.a + 1) % perm.N]
  /\ UNCHANGED bitset_vars

\* the loop is left; IdxType b = rand() % N; the kernel is launched
DrawB ==
  /\ perm.pc = "search"
  /\ gcd(perm.a, perm.N) = 1
  /\ \E r \in 0 .. MaxRand :
       perm' = [perm EXCEPT !.b = r % perm.N, !.pc = "kernel"]
  /\ UNCHANGED bitset_vars

\* permuteKernel, thread tid: if (perms != nullptr && tid < N) perms[outIdx] =
\* inIdx; the threads with tid >= N write nothing
PermuteThread(tid) ==
  /\ perm.pc = "kernel"
  /\ perm.perms[tid] = Unwritten
  /\ perm' = [perm EXCEPT !.perms[tid] = inIdx(perm.a, perm.b, tid, perm.N)]
  /\ UNCHANGED bitset_vars

\* every thread of the kernel has finished
PermuteDone ==
  /\ perm.pc = "kernel"
  /\ \A tid \in DOMAIN perm.perms : perm.perms[tid] # Unwritten
  /\ perm' = [perm EXCEPT !.pc = "done"]
  /\ UNCHANGED bitset_vars

NextPermute ==
  \/ DrawA
  \/ SearchStep
  \/ DrawB
  \/ \E tid \in DOMAIN perm.perms : PermuteThread(tid)
  \/ PermuteDone

\* The host thread runs on and every launched thread is scheduled until it
\* ends.
SpecPermute == InitPermute /\ [][NextPermute]_vars /\ WF_vars(NextPermute)

\* C16: for every N >= 1 and every two values of rand() the search for a ends,
\* with gcd(a, N) = 1, and the map tid -> (a * tid + b) mod N written to perms
\* for tid in [0, N) is one-to-one and onto [0, N).
C16_PermuteBijection ==
  /\ [](perm.pc \in {"kernel", "done"} =>
          /\ gcd(perm.a, perm.N) = 1
          /\ perm.a \in 0 .. perm.N - 1
          /\ perm.b \in 0 .. perm.N - 1)
  /\ [](perm.pc = "done" =>
          /\ {perm.perms[tid] : tid \in 0 .. perm.N - 1} = 0 .. perm.N - 1
          /\ \A s, t \in 0 .. perm.N - 1 : perm.perms[s] = perm.perms[t] => s = t)
  /\ <>(perm.pc \in {"kernel", "done"})
  /\ <>(perm.pc = "done")

\* The search has stepped over values that share a factor with N and the
\* kernel has written a map that is not the identity.
C16_Witness ==
  /\ perm.pc = "done"
  /\ perm.N = 6
  /\ perm.a = 5
  /\ perm.b = 4
  /\ perm.perms[0] = 4
  /\ perm.perms[1] = 3

\* The search on its way: a value of a that shares a factor with N.
C16_WitnessSearching ==
  /\ perm.pc = "search"
  /\ perm.N = 6
  /\ perm.a = 3

\* N = 1: a = 0, and gcd(0, 1) = 1.
C16_WitnessOne ==
  /\ perm.pc = "done"
  /\ perm.N = 1
  /\ perm.a = 0

====
